---- MODULE Spec2Model ----
(***************************************************************************)
(* Triton VM: the Program representation with its BFieldCodec, and the     *)
(* four execution drivers of triton-vm/src/program.rs (run,                *)
(* trace_execution, debug, debug_terminal_state).                          *)
(*                                                                         *)
(* Instruction, VMState and AlgebraicExecutionTrace live in other files of *)
(* the crate; their definitions here follow spec.md (sections 3, 4.2, 4.3).*)
(***************************************************************************)
EXTENDS Integers, Sequences, FiniteSets, TLC

(***************************************************************************)
(* Bounds of the model.                                                    *)
(***************************************************************************)
\* u32 is modelled U32Bits wide: u32::MAX is 2^U32Bits - 1.
U32Bits == 4
\* Longest list of instructions handed to Program::new.
MaxInstrs == 3
\* Longest raw sequence handed to Program::decode.
MaxWords == 4
\* Longest list of instructions of a program that run and trace_execution
\* are followed on.
MaxTraceInstrs == 4
\* Cycles after which the model stops following run / trace_execution.
MaxSteps == 6

U32_MAX == 2^U32Bits - 1
\* The modulus of BFieldElement, 2^64 - 2^32 + 1, at the model's word width.
BFieldP == 2^(2 * U32Bits) - 2^U32Bits + 1

(***************************************************************************)
(* Instruction (crate::instruction).                                       *)
(***************************************************************************)
\* The opcodes are those of the model, below 2^U32Bits; an instruction with
\* an argument has an odd one.
OpsWithArg == {"push", "dup", "call"}
OpsNoArg == {"halt", "pop", "nop", "assert", "hash", "read_io", "write_io"}

Instr(op, a) == [op |-> op, arg |-> a]
NoInstruction == [op |-> "none", arg |-> 0]

has_arg(instruction) == instruction.op \in OpsWithArg
size(instruction) == IF has_arg(instruction) THEN 2 ELSE 1

opcode(instruction) ==
    CASE instruction.op = "halt" -> 0
      [] instruction.op = "push" -> 1
      [] instruction.op = "pop" -> 2
      [] instruction.op = "read_io" -> 4
      [] instruction.op = "dup" -> 5
      [] instruction.op = "write_io" -> 6
      [] instruction.op = "call" -> 7
      [] instruction.op = "nop" -> 8
      [] instruction.op = "assert" -> 10
      [] instruction.op = "hash" -> 12

\* BFieldElement::new(n).value()
BFieldElement_new(n) == n % BFieldP
opcode_b(instruction) == BFieldElement_new(opcode(instruction))
arg(instruction) == BFieldElement_new(instruction.arg)

\* TryFrom<u32> for Instruction: the variant with its default argument.
Instruction_try_from(code) ==
    LET hits == {op \in OpsWithArg \cup OpsNoArg : opcode(Instr(op, 0)) = code}
    IN  IF hits = {} THEN NoInstruction
        ELSE Instr(CHOOSE op \in hits : TRUE, 0)

\* change_arg: None (NoInstruction) when the variant rejects the argument.
change_arg(instruction, new_arg) ==
    IF instruction.op = "dup" /\ new_arg \notin 0..15 THEN NoInstruction
    ELSE Instr(instruction.op, new_arg)

(***************************************************************************)
(* Program.                                                                *)
(***************************************************************************)
\* Program::new with one slot for every instruction.
Program_new_OneSlot(input) == input

RECURSIVE Program_new(_)
Program_new(input) ==
    IF input = <<>> THEN <<>>
    ELSE LET instr == Head(input)
         IN  [k \in 1..size(instr) |-> instr] \o Program_new(Tail(input))

\* InstructionIter::next moving the cursor by one slot.
IterNext_BySlot(instructions, pos) ==
    IF pos >= Len(instructions) THEN <<NoInstruction, pos>>
    ELSE <<instructions[pos + 1], pos + 1>>

\* InstructionIter::next from cursor position pos: <<item, next position>>.
IterNext(instructions, pos) ==
    IF pos >= Len(instructions) THEN <<NoInstruction, pos>>
    ELSE <<instructions[pos + 1], pos + size(instructions[pos + 1])>>

RECURSIVE IterFrom(_, _)
IterFrom(instructions, pos) ==
    LET nxt == IterNext(instructions, pos)
    IN  IF nxt[1] = NoInstruction THEN <<>>
        ELSE <<nxt[1]>> \o IterFrom(instructions, nxt[2])

into_iter(instructions) == IterFrom(instructions, 0)

RECURSIVE FlatWords(_)
FlatWords(instrs) ==
    IF instrs = <<>> THEN <<>>
    ELSE LET instruction == Head(instrs)
         IN  (IF has_arg(instruction)
              THEN <<opcode_b(instruction), arg(instruction)>>
              ELSE <<opcode_b(instruction)>>) \o FlatWords(Tail(instrs))

to_bwords(instructions) == FlatWords(into_iter(instructions))
len_bwords(instructions) == Len(instructions)
encode(instructions) ==
    <<BFieldElement_new(len_bwords(instructions))>> \o to_bwords(instructions)

None == [kind |-> "None"]
Some(v) == [kind |-> "Some", value |-> v]

(***************************************************************************)
(* VMState (crate::vm): the state and its single-step transition.          *)
(***************************************************************************)
VMState_new(pgm, pub_in, sec_in) ==
    [program |-> pgm, instruction_pointer |-> 0, cycle_count |-> 0,
     halting |-> FALSE, public_input |-> pub_in, secret_input |-> sec_in,
     public_output |-> <<>>, op_stack |-> <<>>]

NoCall == [kind |-> "none"]
StepOk(s, co_processor_call) ==
    [ok |-> TRUE, state |-> s, err |-> <<>>, call |-> co_processor_call]
\* A failed step: the error, and the state as the step left it.
StepErr(s, e) == [ok |-> FALSE, state |-> s, err |-> e, call |-> NoCall]

\* The end of a successful step: the pointer moves on, the cycle is counted.
Advance(s, instruction) ==
    [s EXCEPT !.instruction_pointer = @ + size(instruction),
              !.cycle_count = (@ + 1) % (U32_MAX + 1)]

step(s) ==
    IF s.instruction_pointer >= Len(s.program)
    THEN StepErr(s, <<"InstructionPointerOverflow", s.instruction_pointer>>)
    ELSE
    LET instruction == s.program[s.instruction_pointer + 1]
        shallow == StepErr(s, <<"OpStackTooShallow">>)
        popped == [s EXCEPT !.op_stack = Tail(@)]
        pushed(v) == [s EXCEPT !.op_stack = <<v>> \o @]
    IN  CASE instruction.op = "halt" ->
               StepOk([Advance(s, instruction) EXCEPT !.halting = TRUE], NoCall)
          [] instruction.op = "nop" ->
               StepOk(Advance(s, instruction), NoCall)
          [] instruction.op = "push" ->
               StepOk(Advance(pushed(instruction.arg), instruction), NoCall)
          [] instruction.op = "pop" ->
               IF s.op_stack = <<>> THEN shallow
               ELSE StepOk(Advance(popped, instruction), NoCall)
          [] instruction.op = "dup" ->
               IF instruction.arg >= Len(s.op_stack) THEN shallow
               ELSE StepOk(Advance(pushed(s.op_stack[instruction.arg + 1]),
                                   instruction), NoCall)
          [] instruction.op = "assert" ->
               \* the operand is popped before it is tested
               IF s.op_stack = <<>> THEN shallow
               ELSE IF Head(s.op_stack) # 1
               THEN StepErr(popped, <<"AssertionFailed">>)
               ELSE StepOk(Advance(popped, instruction), NoCall)
          [] instruction.op = "hash" ->
               StepOk(Advance(s, instruction),
                      [kind |-> "hash", payload |-> s.op_stack])
          [] instruction.op = "read_io" ->
               IF s.public_input = <<>>
               THEN StepErr(s, <<"EmptyPublicInput">>)
               ELSE StepOk(Advance([pushed(Head(s.public_input))
                                      EXCEPT !.public_input = Tail(@)],
                                   instruction), NoCall)
          [] instruction.op = "write_io" ->
               IF s.op_stack = <<>> THEN shallow
               ELSE StepOk(Advance([popped EXCEPT !.public_output =
                                       Append(@, Head(s.op_stack))],
                                   instruction), NoCall)
          [] instruction.op = "call" ->
               StepOk([s EXCEPT !.instruction_pointer = instruction.arg,
                                !.cycle_count = (@ + 1) % (U32_MAX + 1)],
                      NoCall)

(***************************************************************************)
(* AlgebraicExecutionTrace (crate::aet).                                   *)
(***************************************************************************)
AET_new(pgm) ==
    [program |-> pgm,
     instruction_multiplicities |-> [k \in 1..len_bwords(pgm) |-> 0],
     co_processor_calls |-> <<>>]

\* record_state: Ok(the trace, one lookup counted) or Err.
record_state(trace, s) ==
    IF s.instruction_pointer >= Len(trace.instruction_multiplicities)
    THEN [ok |-> FALSE, aet |-> trace,
          err |-> <<"InstructionPointerOverflow", s.instruction_pointer>>]
    ELSE [ok |-> TRUE, err |-> <<>>,
          aet |-> [trace EXCEPT
                     !.instruction_multiplicities[s.instruction_pointer + 1]
                         = @ + 1]]

record_co_processor_call(trace, co_processor_call) ==
    [trace EXCEPT !.co_processor_calls = Append(@, co_processor_call)]

(***************************************************************************)
(* State.                                                                  *)
(***************************************************************************)
VARIABLES
    pc,             \* position of the call being followed
    input,          \* Program::new: the list of instructions
    program,        \* the Program (self): its instructions
    encoded,        \* decode's argument
    sequence,       \* decode: the payload, sequence[1..]
    program_length, \* decode
    idx,            \* decode
    instructions,   \* decode
    decoded,        \* decode's result
    public_input,   \* the drivers' argument
    secret_input,   \* the drivers' argument
    initial_state,  \* debug, debug_terminal_state: Option<VMState>
    num_cycles_to_execute,  \* debug, debug_terminal_state: Option<u32>
    other_call,     \* a second call's program, public and secret input
    overflow_checks,    \* the build: u32 addition panics on overflow, or wraps
    todo,           \* the driver calls still to make, in order
    active,         \* the driver call being followed
    state,          \* the call's VMState
    states,         \* debug: the snapshots
    max_cycles,     \* debug, debug_terminal_state
    aet,            \* trace_execution: the AlgebraicExecutionTrace
    ops,            \* trace_execution: what the last pass did, in order
                    \* (history)
    cycles,         \* per call, the steps that succeeded (history)
    result          \* per call, what it returned

codec_vars == <<input, encoded, sequence, program_length, idx,
                instructions, decoded>>
arg_vars == <<public_input, secret_input, initial_state,
              num_cycles_to_execute, other_call, overflow_checks>>
call_vars == <<todo, active, state, states, max_cycles, aet, ops, cycles,
               result>>
vars == <<pc, program, codec_vars, arg_vars, call_vars>>

Pending == [kind |-> "Pending"]
Err(e) == [kind |-> "Err", err |-> e]
\* The call did not return: an assertion or an arithmetic check failed.
Panic == [kind |-> "Panic"]

Calls == {"run", "trace_execution", "debug", "debug_terminal_state",
          "debug_other", "debug_terminal_state_other"}

NoCallYet ==
    /\ active = "none"
    /\ state = VMState_new(<<>>, <<>>, <<>>)
    /\ states = <<>>
    /\ max_cycles = 0
    /\ aet = AET_new(<<>>)
    /\ ops = <<>>
    /\ cycles = [c \in Calls |-> 0]
    /\ result = [c \in Calls |-> Pending]

(***************************************************************************)
(* Inputs of the codec.                                                    *)
(***************************************************************************)
CodecInstrs ==
    {Instr("halt", 0), Instr("nop", 0), Instr("pop", 0), Instr("hash", 0),
     Instr("push", 0), Instr("push", 3), Instr("dup", 1), Instr("call", 2)}
\* Wire words: opcodes (0 halt, 1 push, 2 pop, 5 dup, 8 nop), lengths, no
\* opcode (3), arguments, and a word that does not fit u32.
RawWords == {0, 1, 2, 3, 5, 8, U32_MAX + 1}

SeqsUpTo(S, n) == UNION {[1..k -> S] : k \in 0..n}

CodecInit ==
    /\ \/ /\ pc = "new"
          /\ input \in SeqsUpTo(CodecInstrs, MaxInstrs)
          /\ encoded = <<>>
       \/ /\ pc = "decode"
          /\ input = <<>>
          /\ encoded \in SeqsUpTo(RawWords, MaxWords)
    /\ program = <<>>
    /\ sequence = <<>>
    /\ program_length = 0
    /\ idx = 0
    /\ instructions = <<>>
    /\ decoded = Pending
    /\ public_input = <<>>
    /\ secret_input = <<>>
    /\ initial_state = None
    /\ num_cycles_to_execute = None
    /\ other_call = None
    /\ overflow_checks = FALSE
    /\ NoCallYet
    /\ todo = <<>>

(***************************************************************************)
(* Program::new, encode, decode.                                           *)
(***************************************************************************)
NewProgram ==
    /\ pc = "new"
    /\ program' = Program_new(input)
    /\ pc' = "encode"
    /\ UNCHANGED <<input, encoded, sequence, program_length, idx,
                   instructions, decoded, arg_vars, call_vars>>

Encode ==
    /\ pc = "encode"
    /\ encoded' = encode(program)
    /\ pc' = "decode"
    /\ UNCHANGED <<input, program, sequence, program_length, idx,
                   instructions, decoded, arg_vars, call_vars>>

\* is_empty taking a sequence of the length word alone for empty.
is_empty_NoPayload(seq) == Len(seq) <= 1

\* [T]::is_empty
is_empty(seq) == Len(seq) = 0

\* LengthMismatch letting a payload longer than declared through.
LengthMismatch_TooShortOnly(len, length) == len < length

\* The check of the payload's length against the declared length.
LengthMismatch(len, length) == len # length

DecodeBegin ==
    /\ pc = "decode"
    /\ IF is_empty(encoded)
       THEN /\ decoded' = Err(<<"EmptySequence">>)
            /\ pc' = "decoded"
            /\ UNCHANGED <<sequence, program_length>>
       ELSE /\ program_length' = encoded[1]
            /\ sequence' = Tail(encoded)
            /\ IF LengthMismatch(Len(Tail(encoded)), encoded[1])
               THEN /\ decoded' = Err(<<"LengthMismatch", encoded[1],
                                        Len(Tail(encoded))>>)
                    /\ pc' = "decoded"
               ELSE /\ decoded' = Pending
                    /\ pc' = "scan"
    /\ idx' = 0
    /\ instructions' = <<>>
    /\ UNCHANGED <<input, program, encoded, arg_vars, call_vars>>

\* MissingArgument with the bound one word late.
MissingArgument_OneLate(len, length) == len >= length

\* MissingArgument with the bound one word early.
MissingArgument_OneEarly(len, length) == len + 2 >= length

\* The check that the argument of the instruction at idx is there.
MissingArgument(len, length) == len + 1 >= length

\* PushTwice recording the instruction once.
PushTwice_Once(instrs, instruction) == Append(instrs, instruction)

\* An instruction with an argument is recorded twice.
PushTwice(instrs, instruction) ==
    Append(Append(instrs, instruction), instruction)

\* One pass of the scan loop: the new <<idx, instructions, decoded>>.
ScanPass ==
    LET word == sequence[idx + 1]
        instruction == Instruction_try_from(word)
    IN  IF word > U32_MAX
        THEN <<idx, instructions, Err(<<"InvalidOpcode", word, idx>>)>>
        ELSE IF instruction = NoInstruction
        THEN <<idx, instructions, Err(<<"InvalidInstruction", word>>)>>
        ELSE IF ~has_arg(instruction)
        THEN <<idx + size(instruction), Append(instructions, instruction),
               Pending>>
        ELSE IF MissingArgument(Len(instructions), program_length)
        THEN <<idx, instructions,
               Err(<<"MissingArgument", instruction, idx>>)>>
        ELSE IF idx + 1 >= Len(sequence)
        THEN <<idx, instructions, Panic>>
        ELSE LET with_arg == change_arg(instruction, sequence[idx + 2])
             IN  IF with_arg = NoInstruction
                 THEN <<idx, instructions,
                        Err(<<"InvalidArgument", instruction, idx>>)>>
                 ELSE <<idx + size(instruction),
                        PushTwice(instructions, with_arg), Pending>>

DecodeScan ==
    /\ pc = "scan"
    /\ idx < program_length
    /\ idx' = ScanPass[1]
    /\ instructions' = ScanPass[2]
    /\ decoded' = ScanPass[3]
    /\ pc' = IF ScanPass[3] = Pending THEN "scan" ELSE "decoded"
    /\ UNCHANGED <<input, program, encoded, sequence, program_length,
                   arg_vars, call_vars>>

DecodeEnd ==
    /\ pc = "scan"
    /\ idx >= program_length
    /\ decoded' = IF idx # program_length
                  THEN Err(<<"DecodedLengthMismatch", program_length, idx>>)
                  ELSE [kind |-> "Ok", program |-> instructions]
    /\ pc' = "decoded"
    /\ UNCHANGED <<input, program, encoded, sequence, program_length, idx,
                   instructions, arg_vars, call_vars>>

CodecNext == NewProgram \/ Encode \/ DecodeBegin \/ DecodeScan \/ DecodeEnd

CodecSpec == CodecInit /\ [][CodecNext]_vars

(***************************************************************************)
(* Inputs of the drivers.                                                  *)
(***************************************************************************)
ExecInstrs ==
    {Instr("halt", 0), Instr("nop", 0), Instr("push", 1), Instr("assert", 0),
     Instr("hash", 0), Instr("read_io", 0), Instr("write_io", 0),
     Instr("call", 0)}
TracePrograms ==
    {Program_new(l) : l \in SeqsUpTo(ExecInstrs, MaxTraceInstrs)}
Inputs == {<<>>, <<0>>, <<1>>}
\* debug and debug_terminal_state are followed on programs without
\* co-processor calls and output.
DebugInstrs ==
    {Instr("halt", 0), Instr("nop", 0), Instr("push", 1), Instr("assert", 0),
     Instr("read_io", 0), Instr("call", 0)}
DebugPrograms == {Program_new(l) : l \in SeqsUpTo(DebugInstrs, MaxInstrs)}
DebugInputs == {<<>>, <<0>>}

NoCodec ==
    /\ input = <<>>
    /\ encoded = <<>>
    /\ sequence = <<>>
    /\ program_length = 0
    /\ idx = 0
    /\ instructions = <<>>
    /\ decoded = Pending

\* The calls are made one after the other, each with the arguments of Init.
Begin(c) ==
    /\ pc = "idle"
    /\ todo # <<>>
    /\ Head(todo) = c
    /\ todo' = Tail(todo)
    /\ active' = c

Returns(r) ==
    /\ result' = [result EXCEPT ![active] = r]
    /\ pc' = "idle"

Counted == cycles' = [cycles EXCEPT ![active] = @ + 1]

(***************************************************************************)
(* Program::run.                                                           *)
(***************************************************************************)
RunBegin ==
    /\ Begin("run")
    /\ state' = VMState_new(program, public_input, secret_input)
    /\ pc' = "loop"
    /\ UNCHANGED <<program, codec_vars, arg_vars, states, max_cycles, aet, ops,
                   cycles, result>>

RunCycle ==
    /\ pc = "loop"
    /\ active = "run"
    /\ ~state.halting
    /\ cycles[active] < MaxSteps
    /\ LET stepped == step(state)
       IN  /\ state' = stepped.state
           /\ IF stepped.ok
              THEN Counted /\ UNCHANGED <<pc, result>>
              ELSE Returns(Err(stepped.err)) /\ UNCHANGED cycles
    /\ UNCHANGED <<program, codec_vars, arg_vars, active, todo, states,
                   max_cycles, aet, ops>>

RunReturn ==
    /\ pc = "loop"
    /\ active = "run"
    /\ state.halting
    /\ Returns([kind |-> "Ok", output |-> state.public_output])
    /\ UNCHANGED <<program, codec_vars, arg_vars, active, todo, state,
                   states, max_cycles, aet, ops, cycles>>

(***************************************************************************)
(* Program::trace_execution.                                               *)
(***************************************************************************)
TraceBegin ==
    /\ Begin("trace_execution")
    /\ aet' = AET_new(program)
    /\ ops' = <<>>
    /\ state' = VMState_new(program, public_input, secret_input)
    /\ IF len_bwords(program) = Len(AET_new(program).instruction_multiplicities)
       THEN pc' = "loop" /\ UNCHANGED result
       ELSE result' = [result EXCEPT !["trace_execution"] = Panic]
            /\ pc' = "idle"
    /\ UNCHANGED <<program, codec_vars, arg_vars, states, max_cycles, cycles>>

\* CountLookup refusing the pointer to the last slot.
CountLookup_Strict(trace, s) ==
    IF s.instruction_pointer + 1 < Len(trace.instruction_multiplicities)
    THEN [ok |-> TRUE, err |-> <<>>,
          aet |-> [trace EXCEPT
                     !.instruction_multiplicities[s.instruction_pointer + 1]
                         = @ + 1]]
    ELSE [ok |-> FALSE, aet |-> trace,
          err |-> <<"InstructionPointerOverflow", s.instruction_pointer>>]

\* The lookup the driver counts itself, after record_state.
CountLookup(trace, s) ==
    IF s.instruction_pointer < Len(trace.instruction_multiplicities)
    THEN [ok |-> TRUE, err |-> <<>>,
          aet |-> [trace EXCEPT
                     !.instruction_multiplicities[s.instruction_pointer + 1]
                         = @ + 1]]
    ELSE [ok |-> FALSE, aet |-> trace,
          err |-> <<"InstructionPointerOverflow", s.instruction_pointer>>]

\* KeepCall putting the call at the front of the log.
KeepCall_AtFront(trace, maybe_co_processor_call) ==
    IF maybe_co_processor_call # NoCall
    THEN [trace EXCEPT !.co_processor_calls =
                          <<maybe_co_processor_call>> \o @]
    ELSE trace

\* What the driver does with the co-processor call a step returned.
KeepCall(trace, maybe_co_processor_call) ==
    IF maybe_co_processor_call # NoCall
    THEN record_co_processor_call(trace, maybe_co_processor_call)
    ELSE trace

\* What a pass does after its step, by the call the step returned.
CallOps(maybe_co_processor_call) ==
    IF maybe_co_processor_call # NoCall
    THEN <<"record_co_processor_call">> ELSE <<>>

\* TracePass going on after a failed step.
TracePass_GoesOn(trace, s) ==
    LET recorded == record_state(trace, s)
        counted == CountLookup(recorded.aet, s)
        stepped == step(s)
    IN  IF ~recorded.ok
        THEN [aet |-> recorded.aet, state |-> s, err |-> Some(recorded.err),
              ops |-> <<"record_state">>]
        ELSE IF ~counted.ok
        THEN [aet |-> counted.aet, state |-> s, err |-> Some(counted.err),
              ops |-> <<"record_state", "count">>]
        ELSE [aet |-> KeepCall(counted.aet, stepped.call),
              state |-> stepped.state, err |-> None,
              ops |-> <<"record_state", "count", "step">>
                      \o CallOps(stepped.call)]

\* TracePass invoking step before the trace looks the pointer up.
TracePass_StepsFirst(trace, s) ==
    LET stepped == step(s)
        recorded == record_state(trace, s)
        counted == CountLookup(recorded.aet, s)
    IN  IF ~stepped.ok
        THEN [aet |-> trace, state |-> stepped.state,
              err |-> Some(stepped.err), ops |-> <<"step">>]
        ELSE IF ~recorded.ok
        THEN [aet |-> recorded.aet, state |-> stepped.state,
              err |-> Some(recorded.err),
              ops |-> <<"step", "record_state">>]
        ELSE IF ~counted.ok
        THEN [aet |-> counted.aet, state |-> stepped.state,
              err |-> Some(counted.err),
              ops |-> <<"step", "record_state", "count">>]
        ELSE [aet |-> KeepCall(counted.aet, stepped.call),
              state |-> stepped.state, err |-> None,
              ops |-> <<"step", "record_state", "count">>
                      \o CallOps(stepped.call)]

\* TracePass counting the lookup after the step, at the pointer of the
\* state before it.
TracePass_CountsAfterStep(trace, s) ==
    LET recorded == record_state(trace, s)
        stepped == step(s)
        counted == CountLookup(recorded.aet, s)
    IN  IF ~recorded.ok
        THEN [aet |-> recorded.aet, state |-> s, err |-> Some(recorded.err),
              ops |-> <<"record_state">>]
        ELSE IF ~stepped.ok
        THEN [aet |-> recorded.aet, state |-> stepped.state,
              err |-> Some(stepped.err),
              ops |-> <<"record_state", "step">>]
        ELSE IF ~counted.ok
        THEN [aet |-> counted.aet, state |-> stepped.state,
              err |-> Some(counted.err),
              ops |-> <<"record_state", "step", "count">>]
        ELSE [aet |-> KeepCall(counted.aet, stepped.call),
              state |-> stepped.state, err |-> None,
              ops |-> <<"record_state", "step", "count">>
                      \o CallOps(stepped.call)]

\* One pass of trace_execution's loop: the trace, the state, the error the
\* pass returns with, if any, and what the pass did, in order.
TracePass(trace, s) ==
    LET recorded == record_state(trace, s)
        counted == CountLookup(recorded.aet, s)
        stepped == step(s)
    IN  IF ~recorded.ok
        THEN [aet |-> recorded.aet, state |-> s, err |-> Some(recorded.err),
              ops |-> <<"record_state">>]
        ELSE IF ~counted.ok
        THEN [aet |-> counted.aet, state |-> s, err |-> Some(counted.err),
              ops |-> <<"record_state", "count">>]
        ELSE IF ~stepped.ok
        THEN [aet |-> counted.aet, state |-> stepped.state,
              err |-> Some(stepped.err),
              ops |-> <<"record_state", "count", "step">>]
        ELSE [aet |-> KeepCall(counted.aet, stepped.call),
              state |-> stepped.state, err |-> None,
              ops |-> <<"record_state", "count", "step">>
                      \o CallOps(stepped.call)]

TraceCycle ==
    /\ pc = "loop"
    /\ active = "trace_execution"
    /\ ~state.halting
    /\ cycles[active] < MaxSteps
    /\ LET pass == TracePass(aet, state)
       IN  /\ aet' = pass.aet
           /\ ops' = pass.ops
           /\ state' = pass.state
           /\ IF pass.err = None
              THEN Counted /\ UNCHANGED <<pc, result>>
              ELSE Returns(Err(pass.err.value)) /\ UNCHANGED cycles
    /\ UNCHANGED <<program, codec_vars, arg_vars, active, todo, states,
                   max_cycles>>

TraceReturn ==
    /\ pc = "loop"
    /\ active = "trace_execution"
    /\ state.halting
    /\ Returns([kind |-> "Ok", aet |-> aet, output |-> state.public_output])
    /\ UNCHANGED <<program, codec_vars, arg_vars, active, todo, state,
                   states, max_cycles, aet, ops, cycles>>

TraceInit ==
    /\ pc = "idle"
    /\ program \in TracePrograms
    /\ public_input \in Inputs
    /\ secret_input = <<>>
    /\ initial_state = None
    /\ num_cycles_to_execute = None
    /\ other_call = None
    /\ overflow_checks = FALSE
    /\ NoCodec
    /\ NoCallYet
    /\ todo = <<"run", "trace_execution">>

TraceNext ==
    \/ RunBegin \/ RunCycle \/ RunReturn
    \/ TraceBegin \/ TraceCycle \/ TraceReturn

TraceSpec == TraceInit /\ [][TraceNext]_vars

(***************************************************************************)
(* Program::debug and Program::debug_terminal_state.                       *)
(***************************************************************************)
DebugCalls == {"debug", "debug_other"}
TerminalCalls == {"debug_terminal_state", "debug_terminal_state_other"}

\* self, public_input and secret_input of call c.
ArgsOf(c) ==
    IF c \in {"debug_other", "debug_terminal_state_other"}
    THEN other_call.value
    ELSE [program |-> program, public_input |-> public_input,
          secret_input |-> secret_input]

\* InitialState always building the state from the call's own arguments.
InitialState_FromArguments(c) ==
    VMState_new(ArgsOf(c).program, ArgsOf(c).public_input,
                ArgsOf(c).secret_input)

\* let mut state = match initial_state { ... }
InitialState(c) ==
    IF initial_state # None THEN initial_state.value
    ELSE VMState_new(ArgsOf(c).program, ArgsOf(c).public_input,
                     ArgsOf(c).secret_input)

\* CycleBound allowing one cycle more.
CycleBound_OneMore(s) ==
    IF num_cycles_to_execute = None THEN U32_MAX
    ELSE s.cycle_count + num_cycles_to_execute.value + 1

\* let max_cycles = match num_cycles_to_execute { ... }, before it is cut
\* to the width of u32.
CycleBound(s) ==
    IF num_cycles_to_execute = None THEN U32_MAX
    ELSE s.cycle_count + num_cycles_to_execute.value

\* The condition of both loops.
\* Running going on at the bound.
Running_AtBound(s, bound) == ~s.halting /\ s.cycle_count <= bound

Running(s, bound) == ~s.halting /\ s.cycle_count < bound

\* The start of debug and of debug_terminal_state. An addition that leaves
\* u32 panics in a build with overflow checks and wraps in one without.
Enter(c) ==
    /\ Begin(c)
    /\ states' = <<>>
    /\ state' = InitialState(c)
    /\ IF CycleBound(InitialState(c)) > U32_MAX /\ overflow_checks
       THEN /\ result' = [result EXCEPT ![c] = Panic]
            /\ pc' = "idle"
            /\ max_cycles' = 0
       ELSE /\ max_cycles' = CycleBound(InitialState(c)) % (U32_MAX + 1)
            /\ pc' = "loop"
            /\ UNCHANGED result
    /\ UNCHANGED <<program, codec_vars, arg_vars, aet, ops, cycles>>

DebugBegin == \E c \in DebugCalls : Enter(c)

\* PushSnapshot keeping only the first snapshot.
PushSnapshot_FirstOnly(snapshots, s) ==
    IF snapshots = <<>> THEN <<s>> ELSE snapshots

\* states.push(state.clone()), before the step.
PushSnapshot(snapshots, s) == Append(snapshots, s)

\* PushFinal leaving the final state out.
PushFinal_LeftOut(snapshots, s) == snapshots

\* states.push(state), after the loop.
PushFinal(snapshots, s) == Append(snapshots, s)

DebugCycle ==
    /\ pc = "loop"
    /\ active \in DebugCalls
    /\ Running(state, max_cycles)
    /\ states' = PushSnapshot(states, state)
    /\ LET stepped == step(state)
       IN  /\ state' = stepped.state
           /\ IF stepped.ok
              THEN Counted /\ UNCHANGED <<pc, result>>
              ELSE /\ Returns([kind |-> "Returned", states |-> states',
                               err |-> Some(stepped.err)])
                   /\ UNCHANGED cycles
    /\ UNCHANGED <<program, codec_vars, arg_vars, active, todo, max_cycles,
                   aet, ops>>

DebugReturn ==
    /\ pc = "loop"
    /\ active \in DebugCalls
    /\ ~Running(state, max_cycles)
    /\ states' = PushFinal(states, state)
    /\ Returns([kind |-> "Returned", states |-> states', err |-> None])
    /\ UNCHANGED <<program, codec_vars, arg_vars, active, todo, state,
                   max_cycles, aet, ops, cycles>>

TerminalBegin == \E c \in TerminalCalls : Enter(c)

\* Failure returning the state the failed step left behind.
Failure_AfterStep(e, previous_state, s) ==
    [kind |-> "Err", err |-> e, state |-> s]

\* return Err((err, previous_state))
Failure(e, previous_state, s) ==
    [kind |-> "Err", err |-> e, state |-> previous_state]

TerminalCycle ==
    /\ pc = "loop"
    /\ active \in TerminalCalls
    /\ Running(state, max_cycles)
    /\ LET previous_state == state
           stepped == step(state)
       IN  /\ state' = stepped.state
           /\ IF stepped.ok
              THEN Counted /\ UNCHANGED <<pc, result>>
              ELSE /\ Returns(Failure(stepped.err, previous_state,
                                      stepped.state))
                   /\ UNCHANGED cycles
    /\ UNCHANGED <<program, codec_vars, arg_vars, active, todo, states,
                   max_cycles, aet, ops>>

TerminalReturn ==
    /\ pc = "loop"
    /\ active \in TerminalCalls
    /\ ~Running(state, max_cycles)
    /\ Returns([kind |-> "Ok", state |-> state])
    /\ UNCHANGED <<program, codec_vars, arg_vars, active, todo, state,
                   states, max_cycles, aet, ops, cycles>>

\* cycle_count of a supplied initial state, and the budgets.
CycleStarts == {0, U32_MAX - 1, U32_MAX}
Budgets == {None} \cup {Some(n) : n \in {0, 1, 2, U32_MAX}}
InitialStates ==
    {[VMState_new(q, i, <<>>) EXCEPT !.cycle_count = c] :
        q \in DebugPrograms, i \in DebugInputs, c \in CycleStarts}

DebugInit ==
    /\ pc = "idle"
    /\ secret_input = <<>>
    /\ \/ /\ initial_state = None
          /\ program \in DebugPrograms
          /\ public_input \in DebugInputs
          /\ other_call = None
          /\ todo = <<"debug", "debug_terminal_state">>
       \/ /\ initial_state \in {Some(s) : s \in InitialStates}
          /\ program = Program_new(<<Instr("halt", 0)>>)
          /\ public_input = <<>>
          /\ other_call =
               Some([program |-> Program_new(<<Instr("push", 1),
                                               Instr("write_io", 0)>>),
                     public_input |-> <<1>>, secret_input |-> <<1>>])
          /\ todo = <<"debug", "debug_terminal_state", "debug_other",
                      "debug_terminal_state_other">>
    /\ num_cycles_to_execute \in Budgets
    /\ overflow_checks \in
         IF /\ initial_state # None
            /\ CycleBound(initial_state.value) > U32_MAX
         THEN BOOLEAN ELSE {FALSE}
    /\ NoCodec
    /\ NoCallYet

DebugNext ==
    \/ DebugBegin \/ DebugCycle \/ DebugReturn
    \/ TerminalBegin \/ TerminalCycle \/ TerminalReturn

DebugSpec == DebugInit /\ [][DebugNext]_vars

\* A driver is one uninterrupted, synchronous loop: a call that can take its
\* next step takes it, and the next call of the sequence is made.
DebugFairSpec == DebugSpec /\ WF_vars(DebugNext)

Init == CodecInit \/ TraceInit \/ DebugInit
Next == CodecNext \/ TraceNext \/ DebugNext
Spec == Init /\ [][Next]_vars

(***************************************************************************)
(* Properties.                                                             *)
(***************************************************************************)
Last(v) == v[Len(v)]

RECURSIVE SumSeq(_)
SumSeq(v) == IF v = <<>> THEN 0 ELSE Head(v) + SumSeq(Tail(v))

\* The state k successful steps after s.
RECURSIVE AfterSteps(_, _)
AfterSteps(s, k) == IF k = 0 THEN s ELSE AfterSteps(step(s).state, k - 1)

\* The co-processor calls of the first k steps from s, in cycle order.
RECURSIVE CallsOfSteps(_, _)
CallsOfSteps(s, k) ==
    IF k = 0 THEN <<>>
    ELSE (IF step(s).call # NoCall THEN <<step(s).call>> ELSE <<>>)
         \o CallsOfSteps(step(s).state, k - 1)

FreshState == VMState_new(program, public_input, secret_input)
DebugPairs == {<<"debug", "debug_terminal_state">>,
               <<"debug_other", "debug_terminal_state_other">>}

\* C1: a program built by Program::new, encoded and decoded again, is
\* decoded without error to the same slots, duplicate slots included.
C1_RoundTrip ==
    (pc = "decoded" /\ program = Program_new(input)
        /\ encoded = encode(program))
    => decoded = [kind |-> "Ok", program |-> program]

\* C1 happens: a program that ends with a two-slot instruction went round.
C1_Witness ==
    /\ pc = "decoded"
    /\ Len(input) >= 2
    /\ has_arg(Last(input))
    /\ encoded = encode(program)
    /\ decoded = [kind |-> "Ok", program |-> Program_new(input)]

\* C2, as claimed: after a successful trace_execution the entries of
\* instruction_multiplicities sum to the number of steps taken, which is the
\* number of cycles of the run call with the same arguments.
C2_SumIsSteps ==
    result["trace_execution"].kind = "Ok"
    => /\ SumSeq(result["trace_execution"].aet.instruction_multiplicities)
            = cycles["trace_execution"]
       /\ cycles["trace_execution"] = cycles["run"]

\* C3: when debug_terminal_state returns Ok(state), debug with the same
\* arguments returns no error and its last snapshot is that state.
C3_TerminalIsLastSnapshot ==
    \A pair \in DebugPairs :
        result[pair[2]].kind = "Ok"
        => /\ result[pair[1]].kind = "Returned"
           /\ result[pair[1]].err = None
           /\ Len(result[pair[1]].states) >= 1
           /\ Last(result[pair[1]].states) = result[pair[2]].state

\* C3 happens: debug_terminal_state returned Ok after at least two steps.
C3_Witness ==
    /\ result["debug_terminal_state"].kind = "Ok"
    /\ cycles["debug_terminal_state"] >= 2
    /\ Len(result["debug"].states) >= 3

\* C4, as claimed: the state debug_terminal_state returns with an error is
\* the second-to-last snapshot of the vector debug returns.
C4_SecondToLastSnapshot ==
    \A pair \in DebugPairs :
        result[pair[2]].kind = "Err"
        => /\ result[pair[1]].kind = "Returned"
           /\ Len(result[pair[1]].states) >= 2
           /\ result[pair[1]].states[Len(result[pair[1]].states) - 1]
                = result[pair[2]].state

\* C4, amended: the state debug_terminal_state returns with an error is the
\* last snapshot of the vector debug returns, and debug returns that error.
C4_LastSnapshot ==
    \A pair \in DebugPairs :
        result[pair[2]].kind = "Err"
        => /\ result[pair[1]].kind = "Returned"
           /\ result[pair[1]].err = Some(result[pair[2]].err)
           /\ Len(result[pair[1]].states) >= 1
           /\ Last(result[pair[1]].states) = result[pair[2]].state

\* C4 happens: a step failed after at least one step that succeeded.
C4_Witness ==
    /\ result["debug_terminal_state"].kind = "Err"
    /\ cycles["debug_terminal_state"] >= 1
    /\ Len(result["debug"].states) >= 2

\* C5: the state debug_terminal_state returns with an error is the state
\* that all earlier successful steps led to, on which the step fails; it
\* carries nothing of the failing step.
C5_StateBeforeFailingStep ==
    \A c \in TerminalCalls :
        result[c].kind = "Err"
        => LET before == AfterSteps(InitialState(c), cycles[c])
           IN  /\ result[c].state = before
               /\ ~step(before).ok
               /\ result[c].err = step(before).err

\* C5 happens: the failing step had changed the state before it failed.
C5_Witness ==
    /\ result["debug_terminal_state"].kind = "Err"
    /\ cycles["debug_terminal_state"] >= 1
    /\ step(result["debug_terminal_state"].state).state
         # result["debug_terminal_state"].state

\* C6: debug's vector starts with the initial state, each next element is
\* one successful step from the one before; with k steps executed it has
\* k + 1 elements, ending with the final state (no error) or with the state
\* on which the step failed (with that error).
C6_SnapshotVector ==
    \A c \in DebugCalls :
        result[c].kind = "Returned"
        => LET v == result[c].states
               k == cycles[c]
           IN  /\ Len(v) = k + 1
               /\ v[1] = InitialState(c)
               /\ \A j \in 1..k : step(v[j]).ok /\ step(v[j]).state = v[j + 1]
               /\ result[c].err = None
                    => ~Running(v[k + 1],
                                CycleBound(InitialState(c)) % (U32_MAX + 1))
               /\ result[c].err # None
                    => /\ ~step(v[k + 1]).ok
                       /\ result[c].err = Some(step(v[k + 1]).err)

\* C6 happens: debug returned an error after two steps that succeeded.
C6_Witness ==
    /\ result["debug"].kind = "Returned"
    /\ result["debug"].err # None
    /\ cycles["debug"] >= 2

\* C7: with Some(n), debug and debug_terminal_state execute at most n steps,
\* also when cycle_count + n leaves u32; with None, a call that returns
\* without an error returns a halted state or one whose cycle_count is
\* u32::MAX.
C7_CycleBudget ==
    \A c \in DebugCalls \cup TerminalCalls :
        /\ num_cycles_to_execute # None
             => cycles[c] <= num_cycles_to_execute.value
        /\ (num_cycles_to_execute = None /\ result[c].kind = "Ok")
             => \/ result[c].state.halting
                \/ result[c].state.cycle_count = U32_MAX
        /\ (num_cycles_to_execute = None /\ result[c].kind = "Returned"
              /\ result[c].err = None)
             => /\ Len(result[c].states) >= 1
                /\ \/ Last(result[c].states).halting
                   \/ Last(result[c].states).cycle_count = U32_MAX

\* C7 happens: cycle_count + n left u32 and both calls returned.
C7_Witness ==
    /\ initial_state # None
    /\ num_cycles_to_execute # None
    /\ num_cycles_to_execute.value >= 1
    /\ initial_state.value.cycle_count + num_cycles_to_execute.value > U32_MAX
    /\ result["debug"].kind = "Returned"
    /\ result["debug_terminal_state"].kind = "Ok"

\* C8: with an initial state supplied, a call with another program, another
\* public input and another secret input returns what the call returned.
C8_ArgumentsIgnored ==
    initial_state # None
    => \A pair \in {<<"debug", "debug_other">>,
                    <<"debug_terminal_state", "debug_terminal_state_other">>} :
           result[pair[2]] # Pending => result[pair[2]] = result[pair[1]]

\* C8 happens: both calls of debug_terminal_state returned after two steps,
\* and their arguments differ.
C8_Witness ==
    /\ initial_state # None
    /\ result["debug_terminal_state_other"].kind = "Ok"
    /\ cycles["debug_terminal_state_other"] >= 2
    /\ ArgsOf("debug_terminal_state_other").program
         # ArgsOf("debug_terminal_state").program
    /\ ArgsOf("debug_terminal_state_other").public_input
         # ArgsOf("debug_terminal_state").public_input

\* C9: in run and trace_execution a pass on a state on which the step (or
\* the record) fails returns that error at once; after the error the call
\* changes nothing more, and what it returns holds the error alone.
C9_FirstErrorEnds ==
    [][\A c \in {"run", "trace_execution"} :
         /\ (active = c /\ pc = "loop" /\ ~state.halting /\ ~step(state).ok)
              => /\ pc' = "idle"
                 /\ result'[c] = Err(step(state).err)
                 /\ cycles' = cycles
         /\ (result[c].kind = "Err" /\ active' = c)
              => UNCHANGED <<state, aet, ops, cycles, result>>
         /\ result'[c].kind = "Err" => DOMAIN result'[c] = {"kind", "err"}
      ]_vars

\* C9 happens: trace_execution returned an error after steps that succeeded.
C9_Witness ==
    /\ result["trace_execution"].kind = "Err"
    /\ result["run"].kind = "Err"
    /\ cycles["trace_execution"] >= 2

\* C10: after a successful trace_execution the co-processor log holds the
\* calls of the executed steps that returned one, one entry each, in the
\* order of their cycles.
C10_LogInCycleOrder ==
    result["trace_execution"].kind = "Ok"
    => result["trace_execution"].aet.co_processor_calls
         = CallsOfSteps(FreshState, cycles["trace_execution"])

\* C10 happens: two different calls were logged, among steps without one.
C10_Witness ==
    /\ result["trace_execution"].kind = "Ok"
    /\ Len(result["trace_execution"].aet.co_processor_calls) >= 2
    /\ result["trace_execution"].aet.co_processor_calls[1]
         # result["trace_execution"].aet.co_processor_calls[2]
    /\ cycles["trace_execution"]
         > Len(result["trace_execution"].aet.co_processor_calls)

(***************************************************************************)
(* C11: in trace_execution, a pass that starts from a non-halted state     *)
(* whose instruction pointer is at or past the number of slots ends the    *)
(* call with InstructionPointerOverflow(pointer); the error comes from the *)
(* trace's own bounds check, step is not invoked on that state, and no     *)
(* multiplicity changes in that pass.                                      *)
(***************************************************************************)
C11_OverflowBeforeStep ==
    [][(/\ active = "trace_execution"
        /\ pc = "loop"
        /\ ~state.halting
        /\ state.instruction_pointer >= Len(program))
       => (/\ result'["trace_execution"]
                = Err(<<"InstructionPointerOverflow",
                        state.instruction_pointer>>)
           /\ pc' = "idle"
           /\ \A i \in 1..Len(ops') : ops'[i] # "step"
           /\ ops' # <<>>
           /\ state' = state
           /\ aet'.instruction_multiplicities
                = aet.instruction_multiplicities)]_vars

\* trace_execution ran off the end of its program after at least two
\* counted cycles.
C11_Witness ==
    /\ result["trace_execution"]
         = Err(<<"InstructionPointerOverflow", state.instruction_pointer>>)
    /\ cycles["trace_execution"] >= 2
    /\ state.instruction_pointer >= Len(program)
    /\ ops = <<"record_state">>

\* The programs made so far: by Program::new, and by a successful decode.
Programs ==
    (IF pc \notin {"new"} THEN {program} ELSE {})
    \cup (IF decoded.kind = "Ok" THEN {decoded.program} ELSE {})

(***************************************************************************)
(* C12: in every Program built by Program::new or returned by a successful *)
(* decode, every slot that holds an instruction with an argument is        *)
(* followed by a slot, and that slot holds the same instruction.           *)
(***************************************************************************)
C12_EverySlotDuplicated ==
    \A p \in Programs : \A i \in 1..Len(p) :
        has_arg(p[i]) => (i + 1 <= Len(p) /\ p[i + 1] = p[i])

\* The positions at which iteration from the first slot finds an instruction.
RECURSIVE StartsFrom(_, _)
StartsFrom(instrs, pos) ==
    IF pos >= Len(instrs) THEN {}
    ELSE {pos + 1} \cup StartsFrom(instrs, IterNext(instrs, pos)[2])

\* C12, amended: the duplicate follows the first slot of every instruction
\* with an argument, the slot that iteration visits; and every slot is the
\* first slot of an instruction or the duplicate of the slot before it.
C12_FirstSlotDuplicated ==
    \A p \in Programs :
        /\ \A i \in StartsFrom(p, 0) :
              has_arg(p[i]) => (i + 1 <= Len(p) /\ p[i + 1] = p[i])
        /\ \A i \in 1..Len(p) :
              i \notin StartsFrom(p, 0)
                  => (/\ i - 1 \in StartsFrom(p, 0)
                      /\ has_arg(p[i - 1])
                      /\ p[i] = p[i - 1])

\* A program made by Program::new with an instruction with an argument
\* ahead of one without has come back from decode.
C12_Witness ==
    /\ pc = "decoded"
    /\ decoded.kind = "Ok"
    /\ Len(input) >= 2
    /\ has_arg(input[1])
    /\ ~has_arg(input[2])
    /\ decoded.program = program

(***************************************************************************)
(* C13: when the scan of decode reaches, at the last index idx of a        *)
(* payload of the declared length, the opcode of an instruction with an    *)
(* argument, decode fails with MissingArgument naming that instruction and *)
(* idx; it returns no program and reads no word past the payload.          *)
(***************************************************************************)
C13_MissingArgument ==
    [][(/\ pc = "scan"
        /\ idx < program_length
        /\ idx = Len(sequence) - 1
        /\ sequence[idx + 1] <= U32_MAX
        /\ has_arg(Instruction_try_from(sequence[idx + 1])))
       => (/\ decoded' = Err(<<"MissingArgument",
                               Instruction_try_from(sequence[idx + 1]), idx>>)
           /\ pc' = "decoded"
           /\ idx' = idx
           /\ instructions' = instructions)]_vars

\* decode has failed on the opcode of an instruction with an argument in the
\* last word of a payload of three words.
C13_Witness ==
    /\ pc = "decoded"
    /\ decoded.kind = "Err"
    /\ decoded.err[1] = "MissingArgument"
    /\ decoded.err[3] = 2
    /\ Len(sequence) = 3
    /\ program_length = 3
    /\ has_arg(decoded.err[2])

(***************************************************************************)
(* C14: decoding a non-empty sequence whose first element N is not the     *)
(* number of elements after it fails with LengthMismatch, reporting N as   *)
(* the expected and the number of remaining elements as the actual length, *)
(* before any payload word is interpreted.                                 *)
(***************************************************************************)
C14_LengthMismatch ==
    (/\ pc \in {"scan", "decoded"}
     /\ encoded # <<>>
     /\ encoded[1] # Len(encoded) - 1)
    => (/\ pc = "decoded"
        /\ decoded = Err(<<"LengthMismatch", encoded[1], Len(encoded) - 1>>)
        /\ idx = 0
        /\ instructions = <<>>)

\* decode has refused a payload of two words or more whose declared length
\* is another.
C14_Witness ==
    /\ pc = "decoded"
    /\ Len(encoded) >= 3
    /\ decoded.kind = "Err"
    /\ decoded.err[1] = "LengthMismatch"
    /\ decoded.err[3] = Len(encoded) - 1
    /\ decoded.err[2] # decoded.err[3]

(***************************************************************************)
(* C15: decoding the empty sequence fails with EmptySequence before a      *)
(* length word is read, and no other input makes decode report             *)
(* EmptySequence.                                                          *)
(***************************************************************************)
C15_EmptySequence ==
    pc \in {"scan", "decoded"}
    => /\ (decoded = Err(<<"EmptySequence">>)) <=> (encoded = <<>>)
       /\ encoded = <<>> => (/\ pc = "decoded"
                             /\ program_length = 0
                             /\ sequence = <<>>
                             /\ idx = 0
                             /\ instructions = <<>>)

\* decode has refused the empty sequence.
C15_Witness ==
    /\ pc = "decoded"
    /\ encoded = <<>>
    /\ input = <<>>
    /\ decoded = Err(<<"EmptySequence">>)

\* The words of a list of instructions, one after the other.
RECURSIVE WordsOf(_)
WordsOf(L) ==
    IF L = <<>> THEN <<>>
    ELSE (IF Head(L).op \in OpsWithArg
          THEN <<opcode(Head(L)), Head(L).arg>>
          ELSE <<opcode(Head(L))>>) \o WordsOf(Tail(L))

(***************************************************************************)
(* C16: for a Program built by Program::new from the list L, iteration     *)
(* yields the instructions of L in order, each once; to_bwords is the      *)
(* concatenation over L of [opcode] or [opcode, arg]; and the number of    *)
(* words is len_bwords, the length that encode declares.                   *)
(***************************************************************************)
C16_WireForm ==
    (pc \notin {"new"} /\ input # <<>>)
    => (/\ into_iter(program) = input
        /\ to_bwords(program) = WordsOf(input)
        /\ Len(to_bwords(program)) = len_bwords(program)
        /\ pc # "encode"
             => (/\ encoded[1] = Len(to_bwords(program))
                 /\ Tail(encoded) = to_bwords(program)))

\* A list of three instructions, with and without argument, has been built
\* into a program and encoded.
C16_Witness ==
    /\ pc = "decode"
    /\ Len(input) = 3
    /\ has_arg(input[1])
    /\ ~has_arg(input[2])
    /\ has_arg(input[3])
    /\ Len(encoded) = 6

(***************************************************************************)
(* C20: during the scan of decode the number of slots pushed equals idx,   *)
(* the reads of sequence[idx] and sequence[idx + 1] stay inside the        *)
(* payload, and idx never exceeds the declared length N; when the loop     *)
(* ends without an error, idx is N and the program has N slots.            *)
(***************************************************************************)
C20_ScanCursor ==
    /\ decoded # Panic
    /\ pc \in {"scan", "decoded"}
         => (/\ Len(instructions) = idx
             /\ idx <= program_length)
    /\ pc = "scan"
         => (/\ Len(sequence) = program_length
             /\ idx < program_length
                  => (/\ idx + 1 <= Len(sequence)
                      /\ (/\ sequence[idx + 1] <= U32_MAX
                          /\ has_arg(Instruction_try_from(sequence[idx + 1]))
                          /\ ~MissingArgument(Len(instructions),
                                              program_length))
                           => idx + 2 <= Len(sequence)))
    /\ decoded.kind = "Ok"
         => (/\ idx = program_length
             /\ Len(decoded.program) = program_length)
    /\ decoded.kind = "Err" => decoded.err[1] # "DecodedLengthMismatch"

\* The scan has read an instruction with an argument and one without, and
\* decode has returned the program of three slots.
C20_Witness ==
    /\ pc = "decoded"
    /\ decoded.kind = "Ok"
    /\ idx = 3
    /\ program_length = 3
    /\ Len(decoded.program) = 3
    /\ input = <<>>
    /\ \E i, j \in 1..3 : has_arg(decoded.program[i])
                           /\ ~has_arg(decoded.program[j])

\* What a pass does that mutates the trace.
Mutating == {"record_state", "count", "record_co_processor_call"}

\* The place of the step in what a pass did; 0 when the pass did not step.
StepAt(done) ==
    IF \E i \in 1..Len(done) : done[i] = "step"
    THEN CHOOSE i \in 1..Len(done) : done[i] = "step"
    ELSE 0

(***************************************************************************)
(* C17: in every cycle of trace_execution the trace is mutated exactly     *)
(* once, before the state is advanced by step, and not after the step of   *)
(* the same cycle.                                                         *)
(***************************************************************************)
C17_MutatedOnceBeforeStep ==
    (active = "trace_execution" /\ StepAt(ops) > 0)
    => (/\ Cardinality({i \in 1..Len(ops) : ops[i] \in Mutating}) = 1
        /\ \A i \in 1..Len(ops) : ops[i] \in Mutating => i < StepAt(ops))

\* C17, amended: in every cycle the trace records the state and counts the
\* lookup before the state is advanced by step, from the state as it is
\* before the step; after the step of the same cycle the trace changes only
\* by the append of the co-processor call that the step returned, and
\* exactly when the step returned one.
C17_CountedBeforeStep ==
    [][(/\ active = "trace_execution"
        /\ pc = "loop"
        /\ ~state.halting)
       => LET at == StepAt(ops')
              stepped == step(state)
              called == at > 0 /\ stepped.ok /\ stepped.call # NoCall
          IN  /\ \A i \in 1..Len(ops') :
                    ops'[i] \in {"record_state", "count"}
                        => (at = 0 \/ i < at)
              /\ at > 0 => /\ \E i \in 1..at : ops'[i] = "record_state"
                           /\ \E i \in 1..at : ops'[i] = "count"
              /\ \A i \in 1..Len(ops') :
                    (at > 0 /\ i > at)
                        => ops'[i] = "record_co_processor_call"
              /\ called <=> (\E i \in 1..Len(ops') :
                                ops'[i] = "record_co_processor_call")
              /\ aet'.co_processor_calls
                   = IF called
                     THEN Append(aet.co_processor_calls, stepped.call)
                     ELSE aet.co_processor_calls
              /\ at > 0
                   => aet'.instruction_multiplicities
                       = CountLookup(record_state(aet, state).aet, state)
                             .aet.instruction_multiplicities]_vars

\* A second cycle of trace_execution has appended the co-processor call of
\* its step to the log.
C17_Witness ==
    /\ active = "trace_execution"
    /\ cycles["trace_execution"] >= 2
    /\ ops = <<"record_state", "count", "step", "record_co_processor_call">>
    /\ Len(aet.co_processor_calls) >= 1
    /\ Last(aet.co_processor_calls).kind = "hash"

\* The state that run ends in: the one it halts in, or the one its failing
\* step leaves.
RunEnd ==
    LET s == AfterSteps(FreshState, cycles["run"])
    IN  IF s.halting THEN s ELSE step(s).state

(***************************************************************************)
(* C19: for every program and inputs trace_execution succeeds exactly when *)
(* run succeeds; then both return the same public output, and both go      *)
(* through the same sequence of states, the one that step alone produces   *)
(* from the initial state.                                                 *)
(***************************************************************************)
C19_TraceRunsTheSame ==
    /\ (active \in {"run", "trace_execution"} /\ pc = "loop")
         => state = AfterSteps(FreshState, cycles[active])
    /\ result["trace_execution"] # Pending
         => (/\ result["run"] # Pending
             /\ (result["trace_execution"].kind = "Ok")
                  <=> (result["run"].kind = "Ok")
             /\ cycles["trace_execution"] = cycles["run"]
             /\ state = RunEnd
             /\ result["trace_execution"].kind = "Ok"
                  => result["trace_execution"].output = result["run"].output)

\* run and trace_execution have both succeeded after three cycles or more,
\* with an output.
C19_Witness ==
    /\ result["run"].kind = "Ok"
    /\ result["trace_execution"].kind = "Ok"
    /\ cycles["trace_execution"] >= 3
    /\ result["trace_execution"].output # <<>>
    /\ result["trace_execution"].output = result["run"].output

\* run and trace_execution have both failed after a cycle or more.
C19_WitnessFailure ==
    /\ result["run"].kind = "Err"
    /\ result["trace_execution"].kind = "Err"
    /\ cycles["trace_execution"] >= 1

\* The calls that a behaviour makes.
CallsMade ==
    IF other_call = None THEN {"debug", "debug_terminal_state"}
    ELSE DebugCalls \cup TerminalCalls

\* Call c is over: it has returned, or it has panicked on the overflow of
\* cycle_count + n ahead of its loop, in a build with overflow checks.
Ended(c) ==
    /\ result[c] # Pending
    /\ result[c] = Panic
         => (overflow_checks /\ CycleBound(InitialState(c)) > U32_MAX)

(***************************************************************************)
(* C18: debug and debug_terminal_state always come to an end, for every    *)
(* program, also one that never halts, with a budget Some(n) and with      *)
(* None: every successful step makes cycle_count strictly greater and      *)
(* keeps it within the cycle bound, so the loop stops at a halt, at a      *)
(* failing step or at the bound.                                           *)
(***************************************************************************)
C18_AlwaysReturns ==
    /\ <>(/\ pc = "idle"
          /\ todo = <<>>
          /\ \A c \in CallsMade : Ended(c))
    /\ [][(/\ pc = "loop"
           /\ pc' = "loop"
           /\ active \in DebugCalls \cup TerminalCalls)
          => (/\ state'.cycle_count > state.cycle_count
              /\ state'.cycle_count <= max_cycles)]_vars

\* debug and debug_terminal_state have both returned from a program that
\* never halts, with no budget, at the last cycle count there is.
C18_Witness ==
    /\ pc = "idle"
    /\ todo = <<>>
    /\ num_cycles_to_execute = None
    /\ initial_state = None
    /\ result["debug"].kind = "Returned"
    /\ result["debug"].err = None
    /\ result["debug_terminal_state"].kind = "Ok"
    /\ ~result["debug_terminal_state"].state.halting
    /\ result["debug_terminal_state"].state.cycle_count = U32_MAX
    /\ cycles["debug"] = U32_MAX

====
